---------------------------- MODULE Spec2Model ----------------------------
(***************************************************************************)
(* PCI DSS summary report generators (src/AWS/*.py): identifier            *)
(* resolver, finding extractor, statistics counter, status classifier and  *)
(* aggregator, modelled for the four scripts that build records:           *)
(*   "summary"     generate_summary_report.py                              *)
(*   "interactive" generate_interactive_summary.py                         *)
(*   "card_based"  create_card_based_report.py                             *)
(*   "clickable"   card_report_with_clickable.py                           *)
(*                                                                         *)
(* A document's content is a sequence of tokens.  A token is either a      *)
(* piece of markup that one of the regular expressions of the scripts      *)
(* recognises, or a piece of plain text.  Every regular expression is      *)
(* modelled by the operator that computes its matches on token sequences.  *)
(***************************************************************************)
EXTENDS Integers, Sequences, FiniteSets, TLC

VARIABLES
    variant,            \* which script runs
    pc,                 \* position in main(), or phase of a function call
    report_files,       \* main: sorted(glob.glob("reports/*.html"))
    idx,                \* main: position of the for loop in report_files
    requirements_data,  \* main: requirements_data / req_data_list
    overall_stats,      \* main: overall_stats
    presented,          \* locals of generate_*_html that reach the report
    arg,                \* argument of the function under call
    ret                 \* its return value

vars == <<variant, pc, report_files, idx, requirements_data, overall_stats,
          presented, arg, ret>>

(***************************************************************************)
(* Bounds of the model.                                                    *)
(***************************************************************************)
MaxDocs == 3        \* documents in a batch of the pipeline specification
MaxFrags == 3       \* fragments in a content of the content specification
MaxTotal == 20      \* largest total_checks handed to the classifier
MaxSegs == 2        \* segments in a document name of the resolver specification

(***************************************************************************)
(* Tokens.                                                                 *)
(***************************************************************************)
TagPass      == "[PASS]"
TagFail      == "[FAIL]"
TagWarn      == "[WARN]"
TagFailLower == "[fail]"
RedFail      == "<span class=\"red\">[FAIL]</span>"
RedWarn      == "<span class=\"red\">[WARN]</span>"
DivPass      == "<div class=\"check-item pass\">"
DivFail      == "<div class=\"check-item fail\">"
DivWarn      == "<div class=\"check-item warning\">"
DivFailId    == "<div class=\"check-item fail\" id=\"c1\">"
DivOpen      == "<div>"
DivClose     == "</div>"
DivRec       == "<div class=\"recommendation\">"
StrongRec    == "<strong>Recommendation:</strong>"
Br           == "<br>"
H1Open       == "<h1>"
H1Close      == "</h1>"
H3Open       == "<h3>"
H3Close      == "</h3>"

TextTokens == {"T1", "T2", "T3", "T4", "D1", "R1", "R2", "H"}

Min(a, b) == IF a <= b THEN a ELSE b

Take(s, n) == SubSeq(s, 1, Min(n, Len(s)))

\* least position j >= i of s holding a token of S, 0 when there is none
RECURSIVE IndexFrom(_, _, _)
IndexFrom(s, i, S) ==
    IF i > Len(s) THEN 0
    ELSE IF s[i] \in S THEN i
    ELSE IndexFrom(s, i + 1, S)

\* len(re.findall(p, content)) for a pattern p matched by the tokens of S
RECURSIVE CountIn(_, _)
CountIn(s, S) ==
    IF s = <<>> THEN 0
    ELSE (IF Head(s) \in S THEN 1 ELSE 0) + CountIn(Tail(s), S)

\* re.sub(r'<[^>]+>', '', x): the text that is left of each token
StripToken(t) ==
    IF t = RedFail THEN <<TagFail>>
    ELSE IF t = RedWarn THEN <<TagWarn>>
    ELSE IF t \in TextTokens \cup {TagPass, TagFail, TagWarn, TagFailLower}
         THEN <<t>>
    ELSE <<>>

RECURSIVE StripTags(_)
StripTags(s) ==
    IF s = <<>> THEN <<>> ELSE StripToken(Head(s)) \o StripTags(Tail(s))

(***************************************************************************)
(* Statistics counter.                                                     *)
(***************************************************************************)
\* tokens matched by r'\[PASS\]', r'\[FAIL\]', r'\[WARN\]' with re.IGNORECASE
BracketPass == {TagPass}
BracketFail == {TagFail, TagFailLower, RedFail}
BracketWarn == {TagWarn, RedWarn}
\* tokens matched by r'<div class="check-item pass"' and its two siblings
ContainerPass == {DivPass}
ContainerFail == {DivFail, DivFailId}
ContainerWarn == {DivWarn}

\* the two counts added up
max_sum(a, b) == a + b

max(a, b) == IF a >= b THEN a ELSE b

count_checks_nofloor(content) ==
    LET pass_count == max(CountIn(content, BracketPass), CountIn(content, ContainerPass))
        fail_count == max(CountIn(content, BracketFail), CountIn(content, ContainerFail))
        warn_count == max(CountIn(content, BracketWarn), CountIn(content, ContainerWarn))
    IN  [total_checks |-> pass_count + fail_count + warn_count,
         passed |-> pass_count, failed |-> fail_count, warnings |-> warn_count]

\* the floor applied whenever nothing passed
count_checks_floor_nopass(content) ==
    LET c == count_checks_nofloor(content)
    IN  IF c.passed = 0
        THEN [total_checks |-> 1, passed |-> 1, failed |-> c.failed,
              warnings |-> c.warnings]
        ELSE c

\* the total taken from the bracket tags alone
count_checks_bracket_total(content) ==
    LET pass_count == max(CountIn(content, BracketPass), CountIn(content, ContainerPass))
        fail_count == max(CountIn(content, BracketFail), CountIn(content, ContainerFail))
        warn_count == max(CountIn(content, BracketWarn), CountIn(content, ContainerWarn))
        total_checks == CountIn(content, BracketPass) + CountIn(content, BracketFail)
                        + CountIn(content, BracketWarn)
    IN  IF total_checks = 0
        THEN [total_checks |-> 1, passed |-> 1,
              failed |-> fail_count, warnings |-> warn_count]
        ELSE [total_checks |-> total_checks, passed |-> pass_count,
              failed |-> fail_count, warnings |-> warn_count]

\* the warnings left out of the total
count_checks_warn_free(content) ==
    LET pass_count == max(CountIn(content, BracketPass), CountIn(content, ContainerPass))
        fail_count == max(CountIn(content, BracketFail), CountIn(content, ContainerFail))
        warn_count == max(CountIn(content, BracketWarn), CountIn(content, ContainerWarn))
        total_checks == pass_count + fail_count
    IN  IF total_checks = 0
        THEN [total_checks |-> 1, passed |-> 1,
              failed |-> fail_count, warnings |-> warn_count]
        ELSE [total_checks |-> total_checks, passed |-> pass_count,
              failed |-> fail_count, warnings |-> warn_count]

count_checks(content) ==
    LET pass_count == max(CountIn(content, BracketPass), CountIn(content, ContainerPass))
        fail_count == max(CountIn(content, BracketFail), CountIn(content, ContainerFail))
        warn_count == max(CountIn(content, BracketWarn), CountIn(content, ContainerWarn))
        total_checks == pass_count + fail_count + warn_count
    IN  IF total_checks = 0
        THEN [total_checks |-> 1, passed |-> 1,
              failed |-> fail_count, warnings |-> warn_count]
        ELSE [total_checks |-> total_checks, passed |-> pass_count,
              failed |-> fail_count, warnings |-> warn_count]

(***************************************************************************)
(* Compliance percentage and status classifier.  A percentage is the       *)
(* exact fraction n/d; the scripts compute passed / checks * 100 in        *)
(* double precision, which orders against 70 and 90 as the exact fraction  *)
(* does for every total_checks below 3000.                                 *)
(***************************************************************************)
Pct(n, d) == [n |-> n, d |-> d]

PctGeq(p, k) == p.n >= k * p.d

PctGt(p, k) == p.n > k * p.d

compliance_pct(passed, checks) ==
    IF checks > 0 THEN Pct(passed * 100, checks) ELSE Pct(0, 1)

classify_strict(pct) ==
    IF PctGt(pct, 90) THEN [status |-> "Compliant", status_class |-> "compliant"]
    ELSE IF PctGt(pct, 70)
         THEN [status |-> "Partially Compliant", status_class |-> "partial"]
    ELSE [status |-> "Non-Compliant", status_class |-> "non-compliant"]

classify(pct) ==
    IF PctGeq(pct, 90) THEN [status |-> "Compliant", status_class |-> "compliant"]
    ELSE IF PctGeq(pct, 70)
         THEN [status |-> "Partially Compliant", status_class |-> "partial"]
    ELSE [status |-> "Non-Compliant", status_class |-> "non-compliant"]


(***************************************************************************)
(* Identifier resolver.  A document name is a sequence of segments; a      *)
(* segment is a prefix followed by a (possibly empty) string of digits.    *)
(* FileNames lists the names of the model in the order sorted() gives      *)
(* them (ASCII order of the strings in the comments).                      *)
(***************************************************************************)
Seg(pfx, digits) == [pfx |-> pfx, digits |-> digits]

FileNames == <<
    <<Seg("notes", <<>>)>>,                             \* notes.html
    <<Seg("pci_r", <<2>>)>>,                            \* pci_r2.html
    <<Seg("pci_r", <<3>>), Seg("pci_req", <<7>>)>>,     \* pci_r3_pci_req7.html
    <<Seg("pci_req", <<0, 2>>)>>,                       \* pci_req02.html
    <<Seg("pci_req", <<1, 0>>)>>,                       \* pci_req10.html
    <<Seg("pci_req", <<2>>)>>,                          \* pci_req2.html
    <<Seg("pci_req", <<9>>)>>,                          \* pci_req9.html
    <<Seg("pci_requirement", <<3>>)>> >>                \* pci_requirement3.html

\* the same patterns, the abbreviated one tried before the others
patterns_reversed == <<"pci_r", "pci_req", "pci_requirement">>

\* the patterns of extract_requirement_number, in list order
patterns == <<"pci_req", "pci_r", "pci_requirement">>

\* re.search(pattern, filename): the digits of the leftmost segment the
\* pattern matches, <<>> when it matches none ([0-9]+ needs one digit)
RECURSIVE re_search_name(_, _)
re_search_name(pattern, filename) ==
    IF filename = <<>> THEN <<>>
    ELSE IF Head(filename).pfx = pattern /\ Head(filename).digits # <<>>
         THEN Head(filename).digits
    ELSE re_search_name(pattern, Tail(filename))

RECURSIVE first_match(_, _)
first_match(pats, filename) ==
    IF pats = <<>> THEN <<>>
    ELSE IF re_search_name(Head(pats), filename) # <<>>
         THEN re_search_name(Head(pats), filename)
    ELSE first_match(Tail(pats), filename)

\* the digit string captured, <<>> standing for None
extract_requirement_number(filename) == first_match(patterns, filename)

\* int(x["req_num"])
RECURSIVE int(_)
int(digits) ==
    IF digits = <<>> THEN 0
    ELSE 10 * int(SubSeq(digits, 1, Len(digits) - 1)) + digits[Len(digits)]

(***************************************************************************)
(* Finding extractor.                                                      *)
(***************************************************************************)
\* position of the first "</div>\s*</div>" at or after i, 0 when none
RECURSIVE DoubleClose(_, _)
DoubleClose(s, i) ==
    IF i + 1 > Len(s) THEN 0
    ELSE IF s[i] = DivClose /\ s[i + 1] = DivClose THEN i
    ELSE DoubleClose(s, i + 1)

\* re.findall(r'<div class="check-item fail">(.*?)</div>\s*</div>', content)
RECURSIVE fail_blocks(_, _)
fail_blocks(s, i) ==
    LET a == IndexFrom(s, i, {DivFail})
        e == IF a = 0 THEN 0 ELSE DoubleClose(s, a + 1)
    IN  IF e = 0 THEN <<>>
        ELSE <<SubSeq(s, a + 1, e - 1)>> \o fail_blocks(s, e + 2)

\* re.findall(r'<span class="red">\[FAIL\]</span>(.*?)</h3>', content)
RECURSIVE fail_matches(_, _)
fail_matches(s, i) ==
    LET a == IndexFrom(s, i, {RedFail})
        e == IF a = 0 THEN 0 ELSE IndexFrom(s, a + 1, {H3Close})
    IN  IF e = 0 THEN <<>>
        ELSE <<SubSeq(s, a + 1, e - 1)>> \o fail_matches(s, e + 1)

\* re.search(open (.*?) close, s): the group, or <<"no match">>
NoMatch == <<"no match">>

search_group(s, open, close) ==
    LET a == IndexFrom(s, 1, open)
        e == IF a = 0 THEN 0 ELSE IndexFrom(s, a + 1, close)
    IN  IF e = 0 THEN NoMatch ELSE SubSeq(s, a + 1, e - 1)

Finding(title, details, recommendation) ==
    [title |-> title, details |-> details, recommendation |-> recommendation]

\* the body of the loop over fail_blocks
block_finding(block) ==
    LET title_match == search_group(block, {H3Open}, {H3Close})
        details_match == search_group(block, {DivOpen}, {DivClose})
        rec_inline == search_group(block, {StrongRec}, {Br, DivClose})
        rec_div == search_group(block, {DivRec}, {DivClose})
    IN  Finding(
            IF title_match = NoMatch THEN <<"Failed Check">>
            ELSE StripTags(title_match),
            IF details_match = NoMatch THEN <<"No details available">>
            ELSE details_match,
            IF rec_inline # NoMatch THEN rec_inline
            ELSE IF rec_div # NoMatch THEN rec_div
            ELSE <<"No specific recommendation provided.">>)

MapSeq(Op(_), s) == [i \in 1..Len(s) |-> Op(s[i])]

\* strategy 1 of the detailed extractors
structured_findings(content) == MapSeq(block_finding, fail_blocks(content, 1))

\* strategy 2 of card_report_with_clickable.extract_detailed_findings
marker_finding(match) ==
    Finding(StripTags(match),
            <<"Specific details not available in the report.">>,
            <<"Review the full requirement report for detailed recommendations.">>)

marker_findings(content) == MapSeq(marker_finding, fail_matches(content, 1))

\* strategy 2 of the interactive and card-based extract_requirement_data:
\* re.findall(r'<span class="red">(.*?)</span>', content), kept when the
\* indicator holds "[FAIL]"; the context is searched from the start of content
RedSpans == {RedFail, RedWarn}

RECURSIVE fail_indicators(_)
fail_indicators(s) ==
    IF s = <<>> THEN <<>>
    ELSE (IF Head(s) \in RedSpans THEN <<Head(s)>> ELSE <<>>)
         \o fail_indicators(Tail(s))

indicator_finding(content, indicator) ==
    LET context_match == search_group(content, {indicator}, {Br, DivClose, H3Close})
        context == IF context_match = NoMatch THEN <<"Failed check">>
                   ELSE context_match
    IN  Finding(<<"Failed: ">> \o context,
                <<"Specific details not available">>,
                <<"Review the full requirement report for more information.">>)

RECURSIVE indicator_findings(_, _)
indicator_findings(content, inds) ==
    IF inds = <<>> THEN <<>>
    ELSE (IF Head(inds) = RedFail
          THEN <<indicator_finding(content, Head(inds))>> ELSE <<>>)
         \o indicator_findings(content, Tail(inds))

span_findings(content) == indicator_findings(content, fail_indicators(content))


\* card_report_with_clickable.extract_detailed_findings with the guard
\* "if not detailed_findings" dropped
extract_detailed_findings_mixed(content) ==
    structured_findings(content) \o marker_findings(content)

\* card_report_with_clickable.extract_detailed_findings
extract_detailed_findings(content) ==
    LET detailed_findings == structured_findings(content)
    IN  IF detailed_findings = <<>> THEN marker_findings(content)
        ELSE detailed_findings

\* the local detailed_findings of the interactive and card-based
\* extract_requirement_data
detailed_findings_of(content) ==
    LET detailed_findings == structured_findings(content)
    IN  IF detailed_findings = <<>> THEN span_findings(content)
        ELSE detailed_findings

\* the local findings of generate_summary_report.extract_requirement_data:
\* plain titles
findings_of(content) == MapSeq(StripTags, fail_matches(content, 1))

\* extract_title, and the same lines of every extract_requirement_data
extract_title(content, req_num) ==
    LET title_match == search_group(content, {H1Open}, {H1Close})
    IN  IF title_match = NoMatch THEN <<"Requirement ", req_num>>
        ELSE StripTags(title_match)

\* create_explicit_layout_report.extract_findings and
\* fix_card_report.extract_findings: the marker spans first, then the blocks
\* that hold a sub-heading
LayoutFinding(title) ==
    [title |-> title, details |-> <<"Click to see details in full report">>]

RECURSIVE titled_blocks(_)
titled_blocks(blocks) ==
    IF blocks = <<>> THEN <<>>
    ELSE LET title_match == search_group(Head(blocks), {H3Open}, {H3Close})
         IN  (IF title_match = NoMatch THEN <<>>
              ELSE <<LayoutFinding(StripTags(title_match))>>)
             \o titled_blocks(Tail(blocks))

extract_findings(content) ==
    LET findings == MapSeq(LAMBDA m : LayoutFinding(StripTags(m)),
                           fail_matches(content, 1))
    IN  IF findings = <<>> THEN titled_blocks(fail_blocks(content, 1))
        ELSE findings

(***************************************************************************)
(* Per-requirement caps of the critical-findings list.                     *)
(***************************************************************************)
SummaryCap == 3
InteractiveCap == 5
CardBasedCap == 3
ClickableCap == 2
GlobalCap == 10

(***************************************************************************)
(* Records.                                                                *)
(***************************************************************************)
Title(f) == f.title

\* extract_stats with the thresholds exclusive
extract_stats_strict(content) ==
    LET pass_count == max(CountIn(content, BracketPass), CountIn(content, ContainerPass))
        fail_count == max(CountIn(content, BracketFail), CountIn(content, ContainerFail))
        warn_count == max(CountIn(content, BracketWarn), CountIn(content, ContainerWarn))
        total_checks == pass_count + fail_count + warn_count
        pct == Pct(pass_count * 100, total_checks)
    IN  IF total_checks = 0
        THEN [compliance_pct |-> Pct(100, 1), status |-> "Compliant",
              status_class |-> "compliant", total_checks |-> 1, passed |-> 1,
              failed |-> 0, warnings |-> 0]
        ELSE [compliance_pct |-> pct, status |-> classify_strict(pct).status,
              status_class |-> classify_strict(pct).status_class,
              total_checks |-> total_checks, passed |-> pass_count,
              failed |-> fail_count, warnings |-> warn_count]

\* card_report_with_clickable.extract_stats
extract_stats(content) ==
    LET pass_count == max(CountIn(content, BracketPass), CountIn(content, ContainerPass))
        fail_count == max(CountIn(content, BracketFail), CountIn(content, ContainerFail))
        warn_count == max(CountIn(content, BracketWarn), CountIn(content, ContainerWarn))
        total_checks == pass_count + fail_count + warn_count
        pct == Pct(pass_count * 100, total_checks)
    IN  IF total_checks = 0
        THEN [compliance_pct |-> Pct(100, 1), status |-> "Compliant",
              status_class |-> "compliant", total_checks |-> 1, passed |-> 1,
              failed |-> 0, warnings |-> 0]
        ELSE [compliance_pct |-> pct, status |-> classify(pct).status,
              status_class |-> classify(pct).status_class,
              total_checks |-> total_checks, passed |-> pass_count,
              failed |-> fail_count, warnings |-> warn_count]

\* the try body of extract_requirement_data (summary, interactive and
\* card-based), and the body of the loop of main (clickable), after the read
analyze(v, content, req_num) ==
    LET c == count_checks(content)
        pct == compliance_pct(c.passed, c.total_checks)
    IN  IF v = "summary" THEN
            [req_num |-> req_num, title |-> extract_title(content, req_num),
             findings |-> findings_of(content),
             critical_findings |-> Take(findings_of(content), SummaryCap),
             total_checks |-> c.total_checks, passed |-> c.passed,
             failed |-> c.failed, warnings |-> c.warnings,
             compliance_pct |-> pct, status |-> classify(pct).status,
             status_class |-> classify(pct).status_class]
        ELSE IF v = "clickable" THEN
            [req_num |-> req_num, title |-> extract_title(content, req_num),
             findings |-> extract_detailed_findings(content),
             stats |-> extract_stats(content)]
        ELSE
            [req_num |-> req_num, title |-> extract_title(content, req_num),
             findings |-> MapSeq(Title, detailed_findings_of(content)),
             detailed_findings |-> detailed_findings_of(content),
             total_checks |-> c.total_checks, passed |-> c.passed,
             failed |-> c.failed, warnings |-> c.warnings,
             compliance_pct |-> pct, status |-> classify(pct).status,
             status_class |-> classify(pct).status_class]

\* the except branch of extract_requirement_data
error_record(v, error, req_num) ==
    IF v = "summary" THEN
        [req_num |-> req_num, title |-> <<"Requirement ", req_num>>,
         findings |-> << <<"Error processing report">> >>,
         critical_findings |-> << <<"Error processing report">> >>,
         total_checks |-> 1, passed |-> 0, failed |-> 1, warnings |-> 0,
         compliance_pct |-> Pct(0, 1), status |-> "Unknown",
         status_class |-> "non-compliant"]
    ELSE
        [req_num |-> req_num, title |-> <<"Requirement ", req_num>>,
         findings |-> << <<"Error processing report">> >>,
         detailed_findings |-> <<
             Finding(<<"Error processing report">>,
                     <<"An error occurred while processing this report: ", error>>,
                     <<"Check the original report file for details.">>) >>,
         total_checks |-> 1, passed |-> 0, failed |-> 1, warnings |-> 0,
         compliance_pct |-> Pct(0, 1), status |-> "Unknown",
         status_class |-> "non-compliant"]

\* a document: its name, and what open(...).read() gives
Doc(name, ok, content, error) ==
    [name |-> name, ok |-> ok, content |-> content, error |-> error]

extract_requirement_data(v, doc, req_num) ==
    IF doc.ok THEN analyze(v, doc.content, req_num)
    ELSE error_record(v, doc.error, req_num)

\* the counts, percentage and status of a record
Stats(v, r) == IF v = "clickable" THEN r.stats ELSE r

\* the finding sequence of a record the critical findings are taken from
Findings(v, r) ==
    IF v \in {"interactive", "card_based"} THEN r.detailed_findings
    ELSE r.findings


(***************************************************************************)
(* Aggregator.                                                             *)
(***************************************************************************)
Variants == {"summary", "interactive", "card_based", "clickable"}

None == [none |-> TRUE]

\* sorted(s, key=...): a stable sort, on the positions of s and their keys
RECURSIVE insert(_, _, _)
insert(done, i, keys) ==
    IF done = <<>> THEN <<i>>
    ELSE IF keys[Head(done)] <= keys[i]
         THEN <<Head(done)>> \o insert(Tail(done), i, keys)
    ELSE <<i>> \o done

RECURSIVE sorted_positions(_, _)
sorted_positions(n, keys) ==
    IF n = 0 THEN <<>> ELSE insert(sorted_positions(n - 1, keys), n, keys)

sorted(s, Key(_)) ==
    LET keys == [i \in 1..Len(s) |-> Key(s[i])]
        order == sorted_positions(Len(s), keys)
    IN  [k \in 1..Len(s) |-> s[order[k]]]

\* the order of the digit strings as strings (strings of one or two digits)
LexKey(digits) ==
    IF Len(digits) = 1 THEN 11 * digits[1] ELSE 11 * digits[1] + digits[2] + 1

sort_requirements_lexical(reqs) == sorted(reqs, LAMBDA x : LexKey(x.req_num))

\* the sort, with the findings of every record cut to the cap
sort_requirements_capped(reqs) ==
    LET cut == [i \in 1..Len(reqs) |->
                   [reqs[i] EXCEPT !.findings = Take(@, ClickableCap)]]
    IN  sorted(cut, LAMBDA x : int(x.req_num))

\* sorted(requirements_data, key=lambda x: int(x["req_num"])) and
\* requirements_data.sort(key=lambda x: int(x["req_num"]))
sort_requirements(reqs) == sorted(reqs, LAMBDA x : int(x.req_num))

\* the list left in the order main accumulated it
sort_findings_unsorted(cf) == cf

\* the list sorted by the identifier as a string
sort_findings_lexical(cf) == sorted(cf, LAMBDA x : LexKey(x.req))

\* sorted(overall_stats["critical_findings"], key=lambda x: int(x["req"]))
sort_findings(cf) == sorted(cf, LAMBDA x : int(x.req))

DetailedEntry(req_num, f) ==
    [req |-> req_num, title |-> f.title, details |-> f.details,
     recommendation |-> f.recommendation]

\* the entries main appends to overall_stats["critical_findings"] for one
\* record, without the cap
critical_entries_uncapped(v, req_num, req_data) ==
    IF v = "summary"
    THEN MapSeq(LAMBDA f : [req |-> req_num, finding |-> f], req_data.findings)
    ELSE MapSeq(LAMBDA f : DetailedEntry(req_num, f), req_data.detailed_findings)

\* the entries main appends to overall_stats["critical_findings"] for one
\* record
critical_entries(v, req_num, req_data) ==
    IF v = "summary"
    THEN MapSeq(LAMBDA f : [req |-> req_num, finding |-> f],
                req_data.critical_findings)
    ELSE IF v = "interactive"
    THEN MapSeq(LAMBDA f : DetailedEntry(req_num, f),
                Take(req_data.detailed_findings, InteractiveCap))
    ELSE MapSeq(LAMBDA f : DetailedEntry(req_num, f),
                Take(req_data.detailed_findings, CardBasedCap))

RECURSIVE SumSeq(_)
SumSeq(s) == IF s = <<>> THEN 0 ELSE Head(s) + SumSeq(Tail(s))

\* sum(F(req) for req in s)
Sum(s, F(_)) == SumSeq(MapSeq(F, s))

\* the same list without the non-compliant filter
RECURSIVE clickable_critical_unfiltered(_)
clickable_critical_unfiltered(req_data_list) ==
    IF req_data_list = <<>> THEN <<>>
    ELSE LET req == Head(req_data_list)
         IN  MapSeq(LAMBDA f : [req |-> req.req_num, title |-> f.title],
                    Take(req.findings, ClickableCap))
             \o clickable_critical_unfiltered(Tail(req_data_list))

\* the critical_findings list of generate_interactive_card_html
RECURSIVE clickable_critical(_)
clickable_critical(req_data_list) ==
    IF req_data_list = <<>> THEN <<>>
    ELSE LET req == Head(req_data_list)
         IN  (IF req.stats.status_class = "non-compliant"
              THEN MapSeq(LAMBDA f : [req |-> req.req_num, title |-> f.title],
                          Take(req.findings, ClickableCap))
              ELSE <<>>)
             \o clickable_critical(Tail(req_data_list))

\* sorted_findings[:10] if len(sorted_findings) > 10 else sorted_findings
top_findings_uncut(sorted_findings) == sorted_findings

top_findings(sorted_findings) ==
    IF Len(sorted_findings) > GlobalCap THEN SubSeq(sorted_findings, 1, GlobalCap)
    ELSE sorted_findings

\* findings_by_req of generate_interactive_html / generate_card_html: the
\* entries from position i of cf on, grouped by their req string, each with
\* its position in cf at Python's count from 0; groups in order of first
\* occurrence
RECURSIVE group_by_req(_, _, _)
group_by_req(groups, cf, i) ==
    IF i > Len(cf) THEN groups
    ELSE LET f == cf[i]
             e == [index |-> i - 1, title |-> f.title, details |-> f.details,
                   recommendation |-> f.recommendation]
             at == {k \in 1..Len(groups) : groups[k].req = f.req}
         IN  IF at = {}
             THEN group_by_req(Append(groups, [req |-> f.req, findings |-> <<e>>]),
                               cf, i + 1)
             ELSE LET k == CHOOSE j \in at : TRUE
                  IN  group_by_req(
                          [groups EXCEPT ![k].findings = Append(@, e)], cf, i + 1)

\* the sum of the percentages of the records of s, as a fraction
RECURSIVE SumPct(_, _)
SumPct(v, s) ==
    IF s = <<>> THEN Pct(0, 1)
    ELSE LET rest == SumPct(v, Tail(s))
             p == (IF v = "clickable" THEN Head(s).stats ELSE Head(s)).compliance_pct
         IN  Pct(rest.n * p.d + p.n * rest.d, rest.d * p.d)

\* the overall percentage taken as the mean of the records' percentages
overall_of_mean(stats) ==
    LET total == SumPct(variant, requirements_data)
        overall_compliance ==
            IF requirements_data = <<>> THEN Pct(0, 1)
            ELSE Pct(total.n, total.d * Len(requirements_data))
    IN  [overall_compliance |-> overall_compliance,
         overall_status |-> classify(overall_compliance).status,
         overall_status_class |-> classify(overall_compliance).status_class]

\* the zero-check floor applied to the overall aggregate
overall_of_floored(stats) ==
    LET overall_compliance ==
            IF stats.total_checks > 0
            THEN Pct(stats.passed * 100, stats.total_checks) ELSE Pct(100, 1)
    IN  [overall_compliance |-> overall_compliance,
         overall_status |-> classify(overall_compliance).status,
         overall_status_class |-> classify(overall_compliance).status_class]

\* the overall percentage and status of every generate_*_html
overall_of(stats) ==
    LET overall_compliance == compliance_pct(stats.passed, stats.total_checks)
    IN  [overall_compliance |-> overall_compliance,
         overall_status |-> classify(overall_compliance).status,
         overall_status_class |-> classify(overall_compliance).status_class]

\* generate_summary_html
generate_summary_html(reqs, stats) ==
    [overall |-> overall_of(stats),
     rows |-> sort_requirements(reqs),
     sorted_findings |-> sort_findings(stats.critical_findings),
     top_findings |-> top_findings(sort_findings(stats.critical_findings))]

\* generate_interactive_html
generate_interactive_html(reqs, stats) ==
    [overall |-> overall_of(stats),
     rows |-> sort_requirements(reqs),
     critical_groups |-> sorted(group_by_req(<<>>, stats.critical_findings, 1),
                                LAMBDA g : int(g.req))]

\* generate_card_html: the cards follow the list main has sorted
generate_card_html(reqs, stats) ==
    [overall |-> overall_of(stats),
     rows |-> reqs,
     critical_groups |-> sorted(group_by_req(<<>>, stats.critical_findings, 1),
                                LAMBDA g : int(g.req))]

clickable_overall_stats(req_data_list) ==
    [total_checks |-> Sum(req_data_list, LAMBDA r : r.stats.total_checks),
     passed |-> Sum(req_data_list, LAMBDA r : r.stats.passed),
     failed |-> Sum(req_data_list, LAMBDA r : r.stats.failed),
     warnings |-> Sum(req_data_list, LAMBDA r : r.stats.warnings)]

\* generate_interactive_card_html
generate_interactive_card_html(req_data_list) ==
    [overall |-> overall_of(clickable_overall_stats(req_data_list)),
     rows |-> req_data_list,
     sorted_findings |-> clickable_critical(req_data_list),
     top_findings |-> Take(clickable_critical(req_data_list), GlobalCap)]


(***************************************************************************)
(* Inputs of the model.                                                    *)
(***************************************************************************)
Marker(t) == <<H3Open, RedFail, t, H3Close>>

\* no marker at all
ContentPlain == <<H1Open, "H", H1Close, "T1">>

\* eight failure markers under headings, nothing passed
ContentMarkers ==
    Marker("T1") \o Marker("T2") \o Marker("T3") \o Marker("T4")
    \o Marker("D1") \o Marker("R1") \o Marker("R2") \o Marker("H")

\* three bracket-tag failures and five container-class failures
ContentReconcile ==
    <<TagFail, TagFailLower, TagFail,
      DivFailId, DivFailId, DivFailId, DivFailId, DivFailId, TagPass>>

\* three passed checks and one failed-check block: 75 %
ContentPartial ==
    <<TagPass, TagPass, TagPass,
      DivFail, H3Open, RedFail, "T1", H3Close, DivOpen, "D1", DivClose,
      StrongRec, "R1", Br, DivClose, DivClose>>

\* nine passed checks, one failure marker: 90 %
ContentCompliant ==
    <<DivPass, DivPass, DivPass, DivPass, DivPass, DivPass, DivPass, DivPass,
      DivPass>> \o Marker("T2")

PipelineContents == {ContentPlain, ContentMarkers, ContentPartial, ContentCompliant}

\* what reading a document gives: its content, or an exception
Reads(contents) ==
    {[ok |-> TRUE, content |-> c, error |-> ""] : c \in contents}
    \cup {[ok |-> FALSE, content |-> <<>>, error |-> "'utf-8' codec can't decode"]}

\* positions in FileNames of the names the pipeline specification uses
PipelineNames == {1, 2, 4, 5, 6, 7}

\* the k-th smallest element of a set of positions
Kth(I, k) == CHOOSE i \in I : Cardinality({j \in I : j <= i}) = k

\* the batches of at most n documents named in names: sorted by name, as
\* sorted(glob.glob(...)) leaves them
\* (a document whose name resolves to no identifier is never read: it is
\* given the one content ContentPlain)
PlainRead == [ok |-> TRUE, content |-> ContentPlain, error |-> ""]

Batches(names, reads, n) ==
    UNION { { [k \in 1..Cardinality(I) |->
                 Doc(FileNames[Kth(I, k)], f[Kth(I, k)].ok,
                     f[Kth(I, k)].content, f[Kth(I, k)].error)]
              : f \in {g \in [I -> reads \cup {PlainRead}] :
                          \A i \in I :
                              IF extract_requirement_number(FileNames[i]) = <<>>
                              THEN g[i] = PlainRead ELSE g[i] \in reads} }
            : I \in {J \in SUBSET names : Cardinality(J) <= n} }

\* fragments the contents of the content specification are made of
Fragments == {
    <<TagPass>>,
    <<TagWarn>>,
    <<TagFailLower>>,
    <<DivPass, "T1", DivClose>>,
    <<DivFailId, "T1", DivClose>>,
    <<DivWarn>>,
    Marker("T1"),
    Marker("T2"),
    <<RedFail, "T2", Br>>,
    <<DivFail, H3Open, "T2", H3Close, DivOpen, "D1", DivClose, DivRec, "R2",
      DivClose, DivClose>>,
    <<DivFail, "D1", DivClose>>,
    <<DivClose>> }

RECURSIVE Flatten(_)
Flatten(ss) == IF ss = <<>> THEN <<>> ELSE Head(ss) \o Flatten(Tail(ss))

Contents(n) ==
    UNION { { Flatten(fs) : fs \in [1..k -> Fragments] } : k \in 0..n }

(***************************************************************************)
(* main(): the loop over report_files, then the report.                    *)
(***************************************************************************)
ZeroStats ==
    [total_checks |-> 0, passed |-> 0, failed |-> 0, warnings |-> 0,
     critical_findings |-> <<>>]

InitMain(variants, batches) ==
    /\ variant \in variants
    /\ report_files \in batches
    /\ pc = "loop"
    /\ idx = 1
    /\ requirements_data = <<>>
    /\ overall_stats = IF variant = "clickable" THEN None ELSE ZeroStats
    /\ presented = None
    /\ arg = None
    /\ ret = None

Init == InitMain(Variants, Batches(PipelineNames, Reads(PipelineContents), MaxDocs))

\* if not report_files: sys.exit(1)
ExitNoReports ==
    /\ pc = "loop"
    /\ report_files = <<>>
    /\ pc' = "exit"
    /\ UNCHANGED <<variant, report_files, idx, requirements_data, overall_stats,
                   presented, arg, ret>>

\* an unresolved name ending the run
SkipDocument_stop ==
    /\ pc = "loop"
    /\ idx <= Len(report_files)
    /\ extract_requirement_number(report_files[idx].name) = <<>>
    /\ pc' = "exit"
    /\ UNCHANGED <<variant, report_files, idx, requirements_data, overall_stats,
                   presented, arg, ret>>

\* an iteration of the loop with req_num None
SkipDocument ==
    /\ pc = "loop"
    /\ idx <= Len(report_files)
    /\ extract_requirement_number(report_files[idx].name) = <<>>
    /\ idx' = idx + 1
    /\ UNCHANGED <<variant, pc, report_files, requirements_data, overall_stats,
                   presented, arg, ret>>

\* an iteration of the loop with a req_num
ProcessDocument ==
    /\ pc = "loop"
    /\ idx <= Len(report_files)
    /\ LET doc == report_files[idx]
           req_num == extract_requirement_number(doc.name)
       IN  /\ req_num # <<>>
           /\ IF variant = "clickable"
              THEN /\ doc.ok
                   /\ requirements_data' =
                          Append(requirements_data, analyze(variant, doc.content, req_num))
                   /\ UNCHANGED overall_stats
              ELSE LET req_data == extract_requirement_data(variant, doc, req_num)
                   IN  /\ requirements_data' = Append(requirements_data, req_data)
                       /\ overall_stats' =
                              [total_checks |-> overall_stats.total_checks + req_data.total_checks,
                               passed |-> overall_stats.passed + req_data.passed,
                               failed |-> overall_stats.failed + req_data.failed,
                               warnings |-> overall_stats.warnings + req_data.warnings,
                               critical_findings |->
                                   overall_stats.critical_findings
                                   \o critical_entries(variant, req_num, req_data)]
    /\ idx' = idx + 1
    /\ UNCHANGED <<variant, pc, report_files, presented, arg, ret>>

\* card_report_with_clickable.main reads the file outside any try: the
\* exception ends the run
AbortOnRead ==
    /\ pc = "loop"
    /\ idx <= Len(report_files)
    /\ variant = "clickable"
    /\ extract_requirement_number(report_files[idx].name) # <<>>
    /\ ~report_files[idx].ok
    /\ pc' = "aborted"
    /\ UNCHANGED <<variant, report_files, idx, requirements_data, overall_stats,
                   presented, arg, ret>>

\* the end of main after the loop: the sort, generate_*_html, the write
Finish ==
    /\ pc = "loop"
    /\ report_files # <<>>
    /\ idx > Len(report_files)
    /\ pc' = "done"
    /\ IF variant = "summary" THEN
           /\ presented' = generate_summary_html(requirements_data, overall_stats)
           /\ UNCHANGED <<requirements_data, overall_stats>>
       ELSE IF variant = "interactive" THEN
           /\ presented' = generate_interactive_html(requirements_data, overall_stats)
           /\ UNCHANGED <<requirements_data, overall_stats>>
       ELSE IF variant = "card_based" THEN
           /\ requirements_data' = sort_requirements(requirements_data)
           /\ presented' = generate_card_html(requirements_data', overall_stats)
           /\ UNCHANGED overall_stats
       ELSE
           /\ requirements_data' = sort_requirements(requirements_data)
           /\ overall_stats' = clickable_overall_stats(requirements_data')
           /\ presented' = generate_interactive_card_html(requirements_data')
    /\ UNCHANGED <<variant, report_files, idx, arg, ret>>

Next ==
    \/ ExitNoReports
    \/ SkipDocument
    \/ ProcessDocument
    \/ AbortOnRead
    \/ Finish

Spec == Init /\ [][Next]_vars


(***************************************************************************)
(* The script run a second time on the batch of the first run.  The        *)
(* report is written outside the reports directory, so the second run      *)
(* globs the same documents; arg keeps what the first run produced.        *)
(***************************************************************************)
\* the locals main starts with, whatever a previous run left
main_locals_carried(v, reqs, stats) ==
    [requirements_data |-> reqs, overall_stats |-> stats]

main_locals(v, reqs, stats) ==
    [requirements_data |-> <<>>,
     overall_stats |-> IF v = "clickable" THEN None ELSE ZeroStats]

TwiceNames == {1, 4, 5, 6}

InitTwice == InitMain(Variants, Batches(TwiceNames, Reads(PipelineContents), MaxDocs))

Rerun ==
    /\ pc = "done"
    /\ arg = None
    /\ arg' = [requirements_data |-> requirements_data,
               overall_stats |-> overall_stats, presented |-> presented]
    /\ LET locals == main_locals(variant, requirements_data, overall_stats)
       IN  /\ requirements_data' = locals.requirements_data
           /\ overall_stats' = locals.overall_stats
    /\ pc' = "loop"
    /\ idx' = 1
    /\ presented' = None
    /\ UNCHANGED <<variant, report_files, ret>>

NextTwice ==
    \/ ExitNoReports
    \/ SkipDocument
    \/ ProcessDocument
    \/ AbortOnRead
    \/ Finish
    \/ Rerun

SpecTwice == InitTwice /\ [][NextTwice]_vars

(***************************************************************************)
(* The condensed report forms on batches large enough for the cap of 10:   *)
(* any set of the names of FileNames, every document read holding          *)
(* ContentMarkers or failing to be read.                                   *)
(***************************************************************************)
CondensedVariants == {"summary", "clickable"}

InitCap ==
    InitMain(CondensedVariants,
             Batches(1..Len(FileNames), Reads({ContentMarkers}), Len(FileNames)))

SpecCap == InitCap /\ [][Next]_vars

(***************************************************************************)
(* The clickable card report on batches large enough for its cap of 10,    *)
(* with documents of every tier: non-compliant (ContentMarkers), partial   *)
(* (ContentPartial) and compliant (ContentCompliant), all readable.        *)
(***************************************************************************)
FilterContents == {ContentMarkers, ContentPartial, ContentCompliant}

InitFilter ==
    InitMain({"clickable"},
             Batches(1..Len(FileNames),
                     {[ok |-> TRUE, content |-> c, error |-> ""] : c \in FilterContents},
                     Len(FileNames)))

NextFilter ==
    \/ ExitNoReports
    \/ SkipDocument
    \/ ProcessDocument
    \/ Finish

SpecFilter == InitFilter /\ [][NextFilter]_vars

(***************************************************************************)
(* The content-dependent part of a record, on the contents made of at      *)
(* most MaxFrags fragments.                                                *)
(***************************************************************************)
InitContent ==
    /\ variant \in Variants
    /\ arg \in Contents(MaxFrags) \cup PipelineContents \cup {ContentReconcile}
    /\ pc = "call"
    /\ ret = None
    /\ report_files = <<>>
    /\ idx = 1
    /\ requirements_data = <<>>
    /\ overall_stats = None
    /\ presented = None

Analyze ==
    /\ pc = "call"
    /\ ret' = analyze(variant, arg, <<1>>)
    /\ pc' = "return"
    /\ UNCHANGED <<variant, report_files, idx, requirements_data, overall_stats,
                   presented, arg>>

NextContent == Analyze

SpecContent == InitContent /\ [][NextContent]_vars

(***************************************************************************)
(* extract_findings of the explicit-layout and fixed-card scripts, on the  *)
(* same contents.                                                          *)
(***************************************************************************)
LayoutVariants == {"explicit_layout", "fix_card"}

InitFindings ==
    /\ variant \in LayoutVariants
    /\ arg \in Contents(MaxFrags) \cup PipelineContents
    /\ pc = "call"
    /\ ret = None
    /\ report_files = <<>>
    /\ idx = 1
    /\ requirements_data = <<>>
    /\ overall_stats = None
    /\ presented = None

ExtractFindings ==
    /\ pc = "call"
    /\ ret' = extract_findings(arg)
    /\ pc' = "return"
    /\ UNCHANGED <<variant, report_files, idx, requirements_data, overall_stats,
                   presented, arg>>

NextFindings == ExtractFindings

SpecFindings == InitFindings /\ [][NextFindings]_vars

(***************************************************************************)
(* The identifier resolver on every name of at most MaxSegs segments.      *)
(***************************************************************************)
NamePrefixes == {"pci_req", "pci_r", "pci_requirement", "notes"}

NameDigits == {<<>>, <<2>>, <<0, 2>>, <<1, 0>>}

Names(n) ==
    UNION { [1..k -> {Seg(p, d) : p \in NamePrefixes, d \in NameDigits}]
            : k \in 1..n }

InitResolve ==
    /\ variant \in {"summary"}
    /\ arg \in Names(MaxSegs)
    /\ pc = "call"
    /\ ret = None
    /\ report_files = <<>>
    /\ idx = 1
    /\ requirements_data = <<>>
    /\ overall_stats = None
    /\ presented = None

Resolve ==
    /\ pc = "call"
    /\ ret' = extract_requirement_number(arg)
    /\ pc' = "return"
    /\ UNCHANGED <<variant, report_files, idx, requirements_data, overall_stats,
                   presented, arg>>

NextResolve == Resolve

SpecResolve == InitResolve /\ [][NextResolve]_vars

(***************************************************************************)
(* The classifier on every pair (passed, checks) up to MaxTotal.           *)
(***************************************************************************)
InitClassify ==
    /\ variant \in {"summary"}
    /\ arg \in {[passed |-> p, checks |-> t] : p \in 0..MaxTotal, t \in 0..MaxTotal}
    /\ arg.passed <= arg.checks
    /\ pc = "call"
    /\ ret = None
    /\ report_files = <<>>
    /\ idx = 1
    /\ requirements_data = <<>>
    /\ overall_stats = None
    /\ presented = None

\* extract_requirement_data: the percentage and status of a record (count_checks
\* never returns zero checks)
ClassifyRecord ==
    /\ pc = "call"
    /\ arg.checks >= 1
    /\ LET pct == compliance_pct(arg.passed, arg.checks)
       IN  ret' = [level |-> "record", compliance_pct |-> pct,
                   status |-> classify(pct).status,
                   status_class |-> classify(pct).status_class]
    /\ pc' = "return"
    /\ UNCHANGED <<variant, report_files, idx, requirements_data, overall_stats,
                   presented, arg>>

\* generate_summary_html: the overall percentage and status
ClassifyOverall ==
    /\ pc = "call"
    /\ LET o == overall_of([passed |-> arg.passed, total_checks |-> arg.checks])
       IN  ret' = [level |-> "overall", compliance_pct |-> o.overall_compliance,
                   status |-> o.overall_status,
                   status_class |-> o.overall_status_class]
    /\ pc' = "return"
    /\ UNCHANGED <<variant, report_files, idx, requirements_data, overall_stats,
                   presented, arg>>

NextClassify == ClassifyRecord \/ ClassifyOverall

SpecClassify == InitClassify /\ [][NextClassify]_vars


(***************************************************************************)
(* Properties.                                                             *)
(***************************************************************************)
Labels == {"Compliant", "Partially Compliant", "Non-Compliant"}

Records == {requirements_data[i] : i \in 1..Len(requirements_data)}

\* the positions of s that hold a token of S
Positions(s, S) == {i \in 1..Len(s) : s[i] \in S}

\* C1: every record of the collection, whether built from real counts, from
\* the zero-check floor or from the error branch, has
\* total_checks = passed + failed + warnings and total_checks >= 1.
C1_RecordCounts ==
    \A r \in Records :
        LET st == Stats(variant, r)
        IN  /\ st.total_checks = st.passed + st.failed + st.warnings
            /\ st.total_checks >= 1

\* a summary run holding an error record, a floor record and a record with
\* the eight failures counted in ContentMarkers
C1_Witness ==
    /\ variant = "summary"
    /\ Len(requirements_data) = 3
    /\ requirements_data[1].status = "Unknown"
    /\ requirements_data[2].total_checks = 1 /\ requirements_data[2].passed = 1
    /\ requirements_data[3].failed = 8 /\ requirements_data[3].total_checks = 8

\* C2: for total >= 1 and 0 <= passed <= total the classifier answers
\* Compliant/compliant iff 100*passed >= 90*total, Partially Compliant/partial
\* iff 70*total <= 100*passed < 90*total, Non-Compliant/non-compliant iff
\* 100*passed < 70*total; exactly 90 is Compliant, exactly 70 is Partially
\* Compliant.
C2_Classifier ==
    (pc = "return" /\ arg.checks >= 1) =>
        LET p == arg.passed
            t == arg.checks
        IN  /\ (ret.status = "Compliant" /\ ret.status_class = "compliant")
               <=> (100 * p >= 90 * t)
            /\ (ret.status = "Partially Compliant" /\ ret.status_class = "partial")
               <=> (70 * t <= 100 * p /\ 100 * p < 90 * t)
            /\ (ret.status = "Non-Compliant" /\ ret.status_class = "non-compliant")
               <=> (100 * p < 70 * t)
            /\ ret.status \in Labels

\* 9 of 10 passed, exactly 90 %, classified for a record
C2_Witness ==
    /\ pc = "return"
    /\ arg = [passed |-> 9, checks |-> 10]
    /\ ret.level = "record"
    /\ ret.status = "Compliant"

\* C3: every record's status label, the record of an unreadable document
\* included, is one of Compliant, Partially Compliant, Non-Compliant and is
\* the classifier's answer for the record's own percentage.
C3_StatusIsClassified ==
    \A r \in Records :
        LET st == Stats(variant, r)
        IN  /\ st.status \in Labels
            /\ st.status = classify(st.compliance_pct).status

\* the documents of the batch whose name resolves to an identifier
Resolvable ==
    {i \in 1..Len(report_files) :
        extract_requirement_number(report_files[i].name) # <<>>}

\* C4: a read failure never aborts the batch: the run finishes, and with one
\* record for each document whose identifier resolves.
C4_BatchCompletes ==
    /\ pc # "aborted"
    /\ pc = "done" => Len(requirements_data) = Cardinality(Resolvable)

\* the details the two marker-span strategies give every finding
MarkerSpanDetails ==
    {<<"Specific details not available in the report.">>,
     <<"Specific details not available">>}

\* C5: the detailed extractors return the structured-block findings, one per
\* block, whenever there is a block, and marker-span findings only when there
\* is none; the two are never mixed.
C5_FallbackChain ==
    (pc = "return" /\ variant # "summary") =>
        LET found == Findings(variant, ret)
            blocks == Len(fail_blocks(arg, 1))
            spans == IF variant = "clickable" THEN Len(fail_matches(arg, 1))
                     ELSE Cardinality(Positions(arg, {RedFail}))
        IN  /\ blocks > 0 =>
                /\ Len(found) = blocks
                /\ \A i \in 1..Len(found) : found[i].details \notin MarkerSpanDetails
            /\ blocks = 0 =>
                /\ Len(found) = spans
                /\ \A i \in 1..Len(found) : found[i].details \in MarkerSpanDetails

\* no structured block, one marker span: one finding, of strategy 2
C5_Witness ==
    /\ pc = "return"
    /\ variant = "clickable"
    /\ arg = Marker("T1")
    /\ fail_blocks(arg, 1) = <<>>
    /\ Len(ret.findings) = 1
    /\ ret.findings[1].title = <<"T1">>
    /\ ret.findings[1].details \in MarkerSpanDetails

\* C6: when some marker is counted, each of passed, failed and warnings is the
\* larger of the bracket-tag count and the container-class count of its own
\* category, never their sum.
C6_MaxNotSum ==
    pc = "return" =>
        LET st == Stats(variant, ret)
            bp == Cardinality(Positions(arg, BracketPass))
            bf == Cardinality(Positions(arg, BracketFail))
            bw == Cardinality(Positions(arg, BracketWarn))
            cp == Cardinality(Positions(arg, ContainerPass))
            cf == Cardinality(Positions(arg, ContainerFail))
            cw == Cardinality(Positions(arg, ContainerWarn))
            IsMax(x, a, b) == x >= a /\ x >= b /\ x \in {a, b}
        IN  bp + bf + bw + cp + cf + cw > 0 =>
                /\ IsMax(st.passed, bp, cp)
                /\ IsMax(st.failed, bf, cf)
                /\ IsMax(st.warnings, bw, cw)

\* three bracket-tag failures and five container-class failures: failed = 5
C6_Witness ==
    /\ pc = "return"
    /\ variant = "summary"
    /\ Cardinality(Positions(arg, BracketFail)) = 3
    /\ Cardinality(Positions(arg, ContainerFail)) = 5
    /\ ret.failed = 5

AllMarkers ==
    BracketPass \cup BracketFail \cup BracketWarn
    \cup ContainerPass \cup ContainerFail \cup ContainerWarn

\* C7: a content without any marker gives total_checks 1, passed 1, failed 0,
\* warnings 0, 100 % and Compliant; a content with a marker but none of the
\* pass category keeps passed = 0.
C7_ZeroCheckFloor ==
    pc = "return" =>
        LET st == Stats(variant, ret)
        IN  /\ Positions(arg, AllMarkers) = {} =>
                /\ st.total_checks = 1 /\ st.passed = 1
                /\ st.failed = 0 /\ st.warnings = 0
                /\ st.compliance_pct.n = 100 * st.compliance_pct.d
                /\ st.status = "Compliant"
            /\ (Positions(arg, AllMarkers) # {}
                /\ Positions(arg, BracketPass \cup ContainerPass) = {}) =>
                /\ st.passed = 0
                /\ st.total_checks = st.failed + st.warnings

\* a content of text and a heading, no marker: the floor record
C7_Witness ==
    /\ pc = "return"
    /\ variant = "interactive"
    /\ arg = ContentPlain
    /\ ret.total_checks = 1 /\ ret.passed = 1
    /\ ret.status = "Compliant"

\* a and b hold the same elements the same number of times
IsPermutation(a, b) ==
    /\ Len(a) = Len(b)
    /\ \A x \in {a[i] : i \in 1..Len(a)} :
           Cardinality({i \in 1..Len(a) : a[i] = x})
           = Cardinality({i \in 1..Len(b) : b[i] = x})

\* C8: the presented records are a permutation of the collected records, in
\* non-decreasing order of the integer value of the identifier.
C8_NumericOrder ==
    [][pc' = "done" =>
          /\ IsPermutation(presented'.rows, requirements_data)
          /\ \A i, j \in 1..Len(presented'.rows) :
                 i < j => int(presented'.rows[i].req_num)
                          <= int(presented'.rows[j].req_num)]_vars

\* pci_req10.html, pci_req2.html, pci_req9.html, presented as 2, 9, 10
C8_Witness ==
    /\ pc = "done"
    /\ Len(report_files) = 3
    /\ report_files[1].name = FileNames[5]
    /\ report_files[2].name = FileNames[6]
    /\ report_files[3].name = FileNames[7]
    /\ Len(presented.rows) = 3
    /\ presented.rows[1].req_num = <<2>>
    /\ presented.rows[2].req_num = <<9>>
    /\ presented.rows[3].req_num = <<1, 0>>

\* the per-requirement cap of the scripts whose main builds the list
Cap(v) ==
    IF v = "summary" THEN SummaryCap
    ELSE IF v = "interactive" THEN InteractiveCap
    ELSE CardBasedCap

\* what a critical-finding entry carries of its finding
EntryFinding(v, e) ==
    IF v = "summary" THEN e.finding
    ELSE Finding(e.title, e.details, e.recommendation)

\* the number of entries the first j records are due
RECURSIVE Due(_, _)
Due(v, j) ==
    IF j = 0 THEN 0
    ELSE Due(v, j - 1) + Min(Len(Findings(v, requirements_data[j])), Cap(v))

\* C9: a record with n findings gives exactly min(n, k) critical-finding
\* entries, k the per-requirement cap: its first min(n, k) findings in
\* extraction order, each tagged with the record's identifier.
C9_PerRequirementCap ==
    (pc = "loop" /\ variant # "clickable") =>
        LET cf == overall_stats.critical_findings
        IN  /\ Len(cf) = Due(variant, Len(requirements_data))
            /\ \A j \in 1..Len(requirements_data) :
                   LET r == requirements_data[j]
                       n == Len(Findings(variant, r))
                   IN  \A i \in 1..Min(n, Cap(variant)) :
                           LET e == cf[Due(variant, j - 1) + i]
                           IN  /\ e.req = r.req_num
                               /\ EntryFinding(variant, e) = Findings(variant, r)[i]

\* eight findings, cap 3: three entries, the first three findings
C9_Witness ==
    /\ pc = "loop"
    /\ variant = "summary"
    /\ Len(requirements_data) = 1
    /\ Len(requirements_data[1].findings) = 8
    /\ Len(overall_stats.critical_findings) = 3
    /\ overall_stats.critical_findings[3]
       = [req |-> requirements_data[1].req_num, finding |-> <<"T3">>]

\* C10: the condensed forms present at most 10 critical findings, the first
\* 10 of the full list in its presentation order.
C10_GlobalCap ==
    (pc = "done" /\ variant \in CondensedVariants) =>
        /\ Len(presented.top_findings) <= 10
        /\ Len(presented.top_findings) = Min(10, Len(presented.sorted_findings))
        /\ \A i \in 1..Len(presented.top_findings) :
               presented.top_findings[i] = presented.sorted_findings[i]

\* four summary records of three entries each: twelve entries, ten presented
C10_Witness ==
    /\ pc = "done"
    /\ variant = "summary"
    /\ Len(presented.sorted_findings) = 12
    /\ Len(presented.top_findings) = 10


\* C11: a second run on the same batch starts from an empty record list and
\* zeroed totals, and ends with the records, the overall statistics and the
\* presented values of the first run.
C11_Idempotent ==
    /\ (pc = "loop" /\ idx = 1) =>
           /\ requirements_data = <<>>
           /\ (variant # "clickable" => overall_stats = ZeroStats)
    /\ (pc = "done" /\ arg # None) =>
           /\ requirements_data = arg.requirements_data
           /\ overall_stats = arg.overall_stats
           /\ presented = arg.presented

\* a second summary run finished with two records, as the first did
C11_Witness ==
    /\ pc = "done"
    /\ arg # None
    /\ variant = "summary"
    /\ Len(requirements_data) = 2
    /\ overall_stats.total_checks > 1
    /\ Len(overall_stats.critical_findings) > 0
    /\ requirements_data = arg.requirements_data

\* the record of the i-th document of the batch, while the loop runs
RecordOf(i) == requirements_data[Cardinality({j \in Resolvable : j <= i})]

\* C12: the record of a document that could not be read has total_checks 1,
\* passed 0, failed 1, warnings 0 and exactly one finding, titled "Error
\* processing report", whose details hold the error message and whose
\* recommendation is the generic string.
C12_ErrorRecord ==
    pc = "loop" =>
        \A i \in Resolvable :
            (i < idx /\ ~report_files[i].ok) =>
                LET r == RecordOf(i)
                IN  /\ r.total_checks = 1 /\ r.passed = 0
                    /\ r.failed = 1 /\ r.warnings = 0
                    /\ r.findings = << <<"Error processing report">> >>
                    /\ "detailed_findings" \in DOMAIN r
                    /\ Len(r.detailed_findings) = 1
                    /\ r.detailed_findings[1].title = <<"Error processing report">>
                    /\ \E k \in 1..Len(r.detailed_findings[1].details) :
                           r.detailed_findings[1].details[k] = report_files[i].error
                    /\ r.detailed_findings[1].recommendation
                       = <<"Check the original report file for details.">>

\* C13: an iteration on a document whose name resolves to no identifier
\* changes neither the records nor the overall statistics (counts and
\* critical findings), leaves the loop running at the next document, and the
\* run that finishes holds one record per resolvable document.
C13_UnresolvedSkipped ==
    /\ [][(/\ pc = "loop"
           /\ idx <= Len(report_files)
           /\ extract_requirement_number(report_files[idx].name) = <<>>) =>
              /\ requirements_data' = requirements_data
              /\ overall_stats' = overall_stats
              /\ pc' = "loop"
              /\ idx' = idx + 1]_vars
    /\ [](pc = "done" => Len(requirements_data) = Cardinality(Resolvable))

\* notes.html skipped, then the document after it processed
C13_Witness ==
    /\ pc = "loop"
    /\ variant = "summary"
    /\ idx = 3
    /\ report_files[1].name = FileNames[1]
    /\ Len(requirements_data) = 1
    /\ overall_stats.total_checks = requirements_data[1].total_checks

\* the segments of a name a pattern matches
PatternMatches(p, name) ==
    {i \in 1..Len(name) : name[i].pfx = p /\ name[i].digits # <<>>}

Leftmost(I) == CHOOSE i \in I : \A j \in I : i <= j

\* C14: the resolver returns the digits of the leftmost match of pci_req<digits>
\* when that pattern matches anywhere, else those of pci_r<digits>, else those
\* of pci_requirement<digits>, whatever the positions of the matches, and
\* nothing iff none of the three matches.
C14_PatternOrder ==
    pc = "return" =>
        LET req == PatternMatches("pci_req", arg)
            r == PatternMatches("pci_r", arg)
            requirement == PatternMatches("pci_requirement", arg)
        IN  /\ req # {} => ret = arg[Leftmost(req)].digits
            /\ (req = {} /\ r # {}) => ret = arg[Leftmost(r)].digits
            /\ (req = {} /\ r = {} /\ requirement # {}) =>
                   ret = arg[Leftmost(requirement)].digits
            /\ (ret = <<>>) <=> (req = {} /\ r = {} /\ requirement = {})

\* pci_r2_pci_req10: the second-listed pattern matches first in the name, the
\* first-listed pattern wins
C14_Witness ==
    /\ pc = "return"
    /\ arg = <<Seg("pci_r", <<2>>), Seg("pci_req", <<1, 0>>)>>
    /\ ret = <<1, 0>>

\* C15: no two records of the collection have the same identifier, compared
\* as integers.
C15_UniqueIdentifiers ==
    \A i, j \in 1..Len(requirements_data) :
        i # j => int(requirements_data[i].req_num) # int(requirements_data[j].req_num)

\* a percentage between 0 and 100
InRange(p) == p.d > 0 /\ 0 <= p.n /\ p.n <= 100 * p.d

\* C16: for every record 0 <= passed <= total_checks and the percentage is in
\* [0, 100]; the overall percentage is in [0, 100].
C16_PercentageRange ==
    /\ \A r \in Records :
           LET st == Stats(variant, r)
           IN  /\ 0 <= st.passed /\ st.passed <= st.total_checks
               /\ InRange(st.compliance_pct)
    /\ pc = "done" => InRange(presented.overall.overall_compliance)

\* a record strictly between 0 and 100 % in a run whose overall percentage
\* is strictly between 0 and 100 %
C16_Witness ==
    /\ pc = "done"
    /\ variant = "summary"
    /\ \E r \in Records :
           0 < r.compliance_pct.n /\ r.compliance_pct.n < 100 * r.compliance_pct.d
    /\ \E r \in Records : r.compliance_pct.n = 0
    /\ 0 < presented.overall.overall_compliance.n
    /\ presented.overall.overall_compliance.n
       < 100 * presented.overall.overall_compliance.d

\* the sum of a count over the records collected
Total(F(_)) == Sum(requirements_data, LAMBDA r : F(Stats(variant, r)))

\* C17: while main accumulates, each overall count is the sum of that count
\* over the records collected so far and total_checks = passed + failed +
\* warnings; in the report the overall percentage is 100 * (sum of passed) /
\* (sum of total_checks), 0 when nothing was counted, and the overall tier is
\* the classifier's answer for it.
C17_OverallSums ==
    /\ (pc \in {"loop", "done"} /\ (variant = "clickable" => pc = "done")) =>
           /\ overall_stats.total_checks = Total(LAMBDA st : st.total_checks)
           /\ overall_stats.passed = Total(LAMBDA st : st.passed)
           /\ overall_stats.failed = Total(LAMBDA st : st.failed)
           /\ overall_stats.warnings = Total(LAMBDA st : st.warnings)
           /\ overall_stats.total_checks
              = overall_stats.passed + overall_stats.failed + overall_stats.warnings
    /\ pc = "done" =>
           LET total == Total(LAMBDA st : st.total_checks)
               passed == Total(LAMBDA st : st.passed)
               o == presented.overall
               expected == IF total > 0 THEN Pct(100 * passed, total) ELSE Pct(0, 1)
           IN  /\ o.overall_compliance.n * expected.d
                  = expected.n * o.overall_compliance.d
               /\ o.overall_status = classify(expected).status
               /\ o.overall_status_class = classify(expected).status_class

\* a record at 3 of 4 and a record at 0 of 8: overall 3 of 12, not the mean
C17_Witness ==
    /\ pc = "done"
    /\ variant = "interactive"
    /\ Len(requirements_data) = 2
    /\ overall_stats.passed = 3
    /\ overall_stats.total_checks = 12
    /\ presented.overall.overall_compliance = Pct(300, 12)

\* the tokens of b after its first token of S, up to the next token of
\* closers or the end of b
TextAfter(b, S, closers) ==
    LET a == IndexFrom(b, 1, S)
        e == IndexFrom(b, a + 1, closers)
    IN  SubSeq(b, a + 1, IF e = 0 THEN Len(b) ELSE e - 1)

\* C18: the structured-block strategy gives one finding per failed-check
\* block, in order: the title is the block's sub-heading or "Failed Check",
\* the details are the block's first generic content block or "No details
\* available", the recommendation is the inline "Recommendation:" text when
\* the block has one, otherwise the text of the block's recommendation
\* container, otherwise "No specific recommendation provided.".
C18_StructuredBlock ==
    (pc = "return" /\ variant # "summary" /\ fail_blocks(arg, 1) # <<>>) =>
        LET blocks == fail_blocks(arg, 1)
            found == Findings(variant, ret)
        IN  /\ Len(found) = Len(blocks)
            /\ \A i \in 1..Len(blocks) :
                   LET b == blocks[i]
                       Has(t) == IndexFrom(b, 1, {t}) # 0
                   IN  /\ found[i].title =
                              IF Has(H3Open)
                              THEN StripTags(TextAfter(b, {H3Open}, {H3Close}))
                              ELSE <<"Failed Check">>
                       /\ found[i].details =
                              IF Has(DivOpen) THEN TextAfter(b, {DivOpen}, {DivClose})
                              ELSE <<"No details available">>
                       /\ found[i].recommendation =
                              IF Has(StrongRec)
                              THEN TextAfter(b, {StrongRec}, {Br, DivClose})
                              ELSE IF Has(DivRec)
                              THEN TextAfter(b, {DivRec}, {DivClose})
                              ELSE <<"No specific recommendation provided.">>

\* t is the end of s
IsSuffix(t, s) ==
    /\ Len(t) <= Len(s)
    /\ SubSeq(s, Len(s) - Len(t) + 1, Len(s)) = t

\* every failure marker of s is followed by a heading close, with no other
\* marker, line break or container close in between
MarkersInHeadings(s) ==
    \A at \in Positions(s, {RedFail}) :
        LET e == IndexFrom(s, at + 1, {H3Close, Br, DivClose, RedFail})
        IN  e # 0 /\ s[e] = H3Close

\* C19: without a structured block, and with every failure marker followed
\* by a heading close, the marker-span strategy gives one finding per marker,
\* in order, and the title of the i-th finding ends with the text between the
\* i-th marker and its heading close; details and recommendation are the
\* placeholders.
C19_MarkerSpanTitles ==
    (/\ pc = "return"
     /\ variant # "summary"
     /\ fail_blocks(arg, 1) = <<>>
     /\ MarkersInHeadings(arg)) =>
        LET found == Findings(variant, ret)
            marks == Positions(arg, {RedFail})
        IN  /\ Len(found) = Cardinality(marks)
            /\ \A i \in 1..Cardinality(marks) :
                   LET at == Kth(marks, i)
                       e == IndexFrom(arg, at + 1, {H3Close})
                       text == SubSeq(arg, at + 1, e - 1)
                   IN  /\ IsSuffix(StripTags(text), found[i].title)
                       /\ found[i].details \in MarkerSpanDetails

\* C20: extract_findings of the explicit-layout and fixed-card scripts
\* returns the findings of the structured blocks when there are any, and
\* marker-span findings only when the blocks give none.
C20_LayoutFallbackOrder ==
    pc = "return" =>
        LET structured == titled_blocks(fail_blocks(arg, 1))
            spans == MapSeq(LAMBDA m : LayoutFinding(StripTags(m)),
                            fail_matches(arg, 1))
        IN  ret = IF structured # <<>> THEN structured ELSE spans


\* C21: when extract_findings of the explicit-layout and fixed-card scripts
\* finds no marker span, so that the structured-block strategy is the one
\* that runs, it gives one finding for every failed-check block it locates.
C21_NoDroppedBlock ==
    (pc = "return" /\ fail_matches(arg, 1) = <<>>) =>
        Len(ret) = Len(fail_blocks(arg, 1))

\* C22: a record in the collection is the record extraction built for its
\* document; a later iteration of the loop leaves every record collected so
\* far as it is, and the end of main (sorting, critical-findings list, caps)
\* only reorders the records: the collection and the presented rows hold the
\* same records, each with its full finding sequence.
C22_RecordsImmutable ==
    /\ [](pc = "loop" =>
            \A i \in Resolvable :
                i < idx =>
                    RecordOf(i) = extract_requirement_data(
                                      variant, report_files[i],
                                      extract_requirement_number(report_files[i].name)))
    /\ [][/\ (pc = "loop" /\ pc' = "loop") =>
                 /\ Len(requirements_data') >= Len(requirements_data)
                 /\ \A i \in 1..Len(requirements_data) :
                        requirements_data'[i] = requirements_data[i]
          /\ pc' = "done" =>
                 /\ IsPermutation(requirements_data', requirements_data)
                 /\ IsPermutation(presented'.rows, requirements_data)]_vars

\* four summary records of eight findings each after the caps of 3 and 10
C22_Witness ==
    /\ pc = "done"
    /\ variant = "summary"
    /\ Len(presented.rows) = 4
    /\ presented.rows # requirements_data
    /\ Len(presented.top_findings) = 10
    /\ \A i \in 1..4 :
           /\ Len(requirements_data[i].findings) = 8
           /\ Len(requirements_data[i].critical_findings) = 3

\* the identifier of the i-th document, as an integer
IdOf(i) == int(extract_requirement_number(report_files[i].name))

DistinctIds ==
    \A i, j \in Resolvable : i # j => IdOf(i) # IdOf(j)

\* the document with the k-th smallest identifier
Ranked(k) ==
    CHOOSE i \in Resolvable :
        Cardinality({j \in Resolvable : IdOf(j) <= IdOf(i)}) = k

\* the records of the batch in ascending order of identifier
ExpectedRows ==
    [k \in 1..Cardinality(Resolvable) |->
        extract_requirement_data(
            variant, report_files[Ranked(k)],
            extract_requirement_number(report_files[Ranked(k)].name))]

CapOf(v) == IF v = "clickable" THEN ClickableCap ELSE Cap(v)

\* what a record contributes to the critical-findings list
RecordEntries(v, r) ==
    IF v = "clickable" /\ r.stats.status_class # "non-compliant" THEN <<>>
    ELSE MapSeq(LAMBDA f : [req |-> r.req_num,
                            f |-> IF v = "clickable" THEN f.title ELSE f],
                Take(Findings(v, r), CapOf(v)))

\* the critical-findings list of the report, in presentation order (without
\* the element index the interactive and card-based reports number the
\* entries with)
PresentedEntries ==
    IF variant = "summary"
    THEN MapSeq(LAMBDA e : [req |-> e.req, f |-> e.finding],
                presented.sorted_findings)
    ELSE IF variant = "clickable"
    THEN MapSeq(LAMBDA e : [req |-> e.req, f |-> e.title],
                presented.sorted_findings)
    ELSE Flatten(MapSeq(
             LAMBDA g : MapSeq(LAMBDA e : [req |-> g.req,
                                           f |-> Finding(e.title, e.details,
                                                         e.recommendation)],
                               g.findings),
             presented.critical_groups))

\* C23: for a batch with numerically distinct identifiers, whatever the
\* order the documents were processed in, the presented records are the
\* batch's records in ascending order of identifier, the overall counts are
\* their sums, the overall percentage and tier are those of the sums, and the
\* critical-findings list is the concatenation, in ascending order of
\* identifier, of what each record contributes.
C23_OrderIndependent ==
    (pc = "done" /\ DistinctIds) =>
        LET total == Sum(ExpectedRows, LAMBDA r : Stats(variant, r).total_checks)
            passed == Sum(ExpectedRows, LAMBDA r : Stats(variant, r).passed)
        IN  /\ presented.rows = ExpectedRows
            /\ overall_stats.total_checks = total
            /\ overall_stats.passed = passed
            /\ overall_stats.failed
               = Sum(ExpectedRows, LAMBDA r : Stats(variant, r).failed)
            /\ overall_stats.warnings
               = Sum(ExpectedRows, LAMBDA r : Stats(variant, r).warnings)
            /\ presented.overall
               = overall_of([passed |-> passed, total_checks |-> total])
            /\ PresentedEntries
               = Flatten(MapSeq(LAMBDA r : RecordEntries(variant, r), ExpectedRows))

\* identifiers processed in the order 10, 2, 9 and presented as 2, 9, 10,
\* with the critical findings of 2 first
C23_Witness ==
    /\ pc = "done"
    /\ variant = "summary"
    /\ Len(report_files) = 3
    /\ IdOf(1) = 10 /\ IdOf(2) = 2 /\ IdOf(3) = 9
    /\ Len(overall_stats.critical_findings) >= 2
    /\ overall_stats.critical_findings[1].req = <<1, 0>>
    /\ presented.sorted_findings[1].req = <<2>>
    /\ presented.rows[1].total_checks # presented.rows[2].total_checks

\* C24: every iteration of the loop moves to the next document, having
\* appended exactly one record when the name resolves and none otherwise, and
\* the run on a non-empty batch ends with its report once the last document
\* is passed: no document is left out, retried or revisited.
C24_InOrderOnce ==
    [][/\ (pc = "loop" /\ idx <= Len(report_files)) =>
              /\ pc' = "loop"
              /\ idx' = idx + 1
              /\ Len(requirements_data')
                 = Len(requirements_data) + (IF idx \in Resolvable THEN 1 ELSE 0)
              /\ \A i \in 1..Len(requirements_data) :
                     requirements_data'[i] = requirements_data[i]
       /\ (pc = "loop" /\ idx > Len(report_files) /\ report_files # <<>>) =>
              pc' = "done"]_vars

\* C25: the summary report's critical-findings list holds the accumulated
\* entries in ascending order of integer identifier, the entries of one
\* identifier in the order they were accumulated; the presented list is its
\* first 10 entries, so no omitted entry has a smaller identifier than a
\* presented one.
C25_SortedStableCut ==
    (pc = "done" /\ variant = "summary") =>
        LET cf == overall_stats.critical_findings
            sf == presented.sorted_findings
            top == presented.top_findings
            ids == {int(cf[i].req) : i \in 1..Len(cf)}
        IN  /\ Len(sf) = Len(cf)
            /\ \A i, j \in 1..Len(sf) : i < j => int(sf[i].req) <= int(sf[j].req)
            /\ \A q \in ids :
                   SelectSeq(sf, LAMBDA e : int(e.req) = q)
                   = SelectSeq(cf, LAMBDA e : int(e.req) = q)
            /\ Len(top) = Min(10, Len(sf))
            /\ \A i \in 1..Len(top) : top[i] = sf[i]
            /\ \A i \in 1..Len(top) :
                   \A j \in (Len(top) + 1)..Len(sf) :
                       int(sf[j].req) >= int(top[i].req)

\* requirement 10 accumulated first, sorted last, and cut by the cap
C25_Witness ==
    /\ pc = "done"
    /\ variant = "summary"
    /\ Len(presented.sorted_findings) = 12
    /\ overall_stats.critical_findings[1].req = <<1, 0>>
    /\ presented.sorted_findings[1].req = <<2>>
    /\ presented.sorted_findings[1].finding = <<"T1">>
    /\ presented.sorted_findings[3].finding = <<"T3">>
    /\ presented.sorted_findings[12].req = <<1, 0>>
    /\ presented.top_findings[10] = presented.sorted_findings[10]
    /\ Len(presented.top_findings) = 10

\* the number of entries the first j rows are due under the filter
RECURSIVE DueFiltered(_, _)
DueFiltered(rows, j) ==
    IF j = 0 THEN 0
    ELSE DueFiltered(rows, j - 1)
         + (IF rows[j].stats.status_class = "non-compliant"
            THEN Min(Len(rows[j].findings), 2) ELSE 0)

\* C26: the clickable card report's critical-findings list holds, for each
\* non-compliant record in presentation order, its first min(n, 2) findings,
\* and nothing of any other record; the presented list is the first 10
\* entries of that filtered list.
C26_NonCompliantFilter ==
    (pc = "done" /\ variant = "clickable") =>
        LET rows == presented.rows
            full == presented.sorted_findings
            top == presented.top_findings
        IN  /\ Len(full) = DueFiltered(rows, Len(rows))
            /\ \A j \in 1..Len(rows) :
                   rows[j].stats.status_class = "non-compliant" =>
                       \A i \in 1..Min(Len(rows[j].findings), 2) :
                           full[DueFiltered(rows, j - 1) + i]
                           = [req |-> rows[j].req_num,
                              title |-> rows[j].findings[i].title]
            /\ Len(top) = Min(10, Len(full))
            /\ \A i \in 1..Len(top) : top[i] = full[i]

\* a compliant record with a finding presented first, six non-compliant
\* records behind it: twelve entries, none of the compliant record, ten shown
C26_Witness ==
    /\ pc = "done"
    /\ variant = "clickable"
    /\ Len(presented.rows) = 7
    /\ presented.rows[1].stats.status_class = "compliant"
    /\ Len(presented.rows[1].findings) = 1
    /\ presented.rows[2].stats.status_class = "non-compliant"
    /\ Len(presented.sorted_findings) = 12
    /\ presented.sorted_findings[1].req = presented.rows[2].req_num
    /\ Len(presented.top_findings) = 10

\* C27: the percentage of a record is 100 * passed / (passed + failed +
\* warnings) and its status is the classifier's answer for it, whatever the
\* findings are; a record without findings contributes no critical finding.
C27_StatusFromCounts ==
    pc = "return" =>
        LET st == Stats(variant, ret)
            total == st.passed + st.failed + st.warnings
            expected == classify(Pct(100 * st.passed, total))
        IN  /\ st.compliance_pct.d > 0
            /\ st.compliance_pct.n * total = 100 * st.passed * st.compliance_pct.d
            /\ st.status = expected.status
            /\ st.status_class = expected.status_class
            /\ Findings(variant, ret) = <<>> =>
                   IF variant = "clickable" THEN clickable_critical(<<ret>>) = <<>>
                   ELSE critical_entries(variant, ret.req_num, ret) = <<>>

\* one passed, one failed, one warning, no finding extracted: 1 of 3
C27_Witness ==
    /\ pc = "return"
    /\ variant = "interactive"
    /\ arg = <<TagPass, TagWarn, TagFailLower>>
    /\ ret.failed = 1 /\ ret.warnings = 1 /\ ret.passed = 1
    /\ ret.detailed_findings = <<>>
    /\ ret.compliance_pct = Pct(100, 3)
    /\ ret.status = "Non-Compliant"

\* C28: a run on a non-empty batch none of whose names resolves ends with no
\* record, overall counts all 0, overall percentage 0 and overall tier
\* Non-Compliant.
C28_NothingResolves ==
    (pc = "done" /\ Resolvable = {}) =>
        /\ report_files # <<>>
        /\ requirements_data = <<>>
        /\ presented.rows = <<>>
        /\ overall_stats.total_checks = 0 /\ overall_stats.passed = 0
        /\ overall_stats.failed = 0 /\ overall_stats.warnings = 0
        /\ presented.overall.overall_compliance.d > 0
        /\ presented.overall.overall_compliance.n = 0
        /\ presented.overall.overall_status = "Non-Compliant"
        /\ presented.overall.overall_status_class = "non-compliant"

\* the batch of notes.html alone, run to its report
C28_Witness ==
    /\ pc = "done"
    /\ Len(report_files) = 1
    /\ report_files[1].name = FileNames[1]
    /\ requirements_data = <<>>
    /\ presented.overall.overall_status = "Non-Compliant"

\* count_checks followed by the inline percentage and status computation
inline_stats(content) ==
    LET c == count_checks(content)
        pct == compliance_pct(c.passed, c.total_checks)
    IN  [total_checks |-> c.total_checks, passed |-> c.passed,
         failed |-> c.failed, warnings |-> c.warnings, compliance_pct |-> pct,
         status |-> classify(pct).status,
         status_class |-> classify(pct).status_class]

\* C29: on every content, the statistics of the record one script builds
\* equal those the other computation gives: extract_stats against
\* count_checks with the inline percentage and status, field by field.
C29_StatsEquivalent ==
    pc = "return" =>
        LET st == Stats(variant, ret)
            other == IF variant = "clickable" THEN inline_stats(arg)
                     ELSE extract_stats(arg)
        IN  /\ st.total_checks = other.total_checks
            /\ st.passed = other.passed
            /\ st.failed = other.failed
            /\ st.warnings = other.warnings
            /\ st.compliance_pct.n * other.compliance_pct.d
               = other.compliance_pct.n * st.compliance_pct.d
            /\ st.status = other.status
            /\ st.status_class = other.status_class

\* the zero-marker content through extract_stats
C29_Witness ==
    /\ pc = "return"
    /\ variant = "clickable"
    /\ arg = ContentPlain
    /\ ret.stats.total_checks = 1
    /\ ret.stats.status = "Compliant"
    /\ inline_stats(arg).total_checks = 1

\* C30: with B and C the totals of the bracket-tag and container-class
\* counts, a content with a marker has max(B, C) <= total_checks <= B + C,
\* and total_checks = B when the two counts agree in every category.
C30_TotalBounds ==
    pc = "return" =>
        LET st == Stats(variant, ret)
            bp == Cardinality(Positions(arg, BracketPass))
            bf == Cardinality(Positions(arg, BracketFail))
            bw == Cardinality(Positions(arg, BracketWarn))
            cp == Cardinality(Positions(arg, ContainerPass))
            cf == Cardinality(Positions(arg, ContainerFail))
            cw == Cardinality(Positions(arg, ContainerWarn))
            B == bp + bf + bw
            C == cp + cf + cw
        IN  B + C > 0 =>
                /\ st.total_checks >= B
                /\ st.total_checks >= C
                /\ st.total_checks <= B + C
                /\ (bp = cp /\ bf = cf /\ bw = cw) => st.total_checks = B

\* one bracket-tag pass and one container-class failure: B = C = 1, total 2
C30_Witness ==
    /\ pc = "return"
    /\ variant = "summary"
    /\ Cardinality(Positions(arg, BracketPass)) = 1
    /\ Cardinality(Positions(arg, ContainerFail)) = 1
    /\ Cardinality(Positions(arg, AllMarkers)) = 2
    /\ ret.total_checks = 2

=============================================================================
